---- MODULE Spec2Model ----
(***************************************************************************)
(* The runtime part of src/src/types/index.ts: the structural guard        *)
(* isApiError and the defaulting constructor createApiError, over a model  *)
(* of JavaScript data values (undefined, null, booleans, numbers, strings, *)
(* plain objects with own enumerable data properties, arrays).             *)
(*                                                                         *)
(* Objects the callers hold live in a store addressed by identity, so that *)
(* "returns a new object" and "leaves its argument alone" are statements   *)
(* about the store.  Nested values (details, fieldErrors) are kept by      *)
(* value; property order is not modelled.                                  *)
(***************************************************************************)
EXTENDS Integers, Sequences, FiniteSets, TLC

VARIABLES store, arg, op, ret, verdict, madeFrom

vars == <<store, arg, op, ret, verdict, madeFrom>>

(* ---------------------------- bounds ---------------------------------- *)

\* longest fieldErrors array that is enumerated
MaxLen == 2

\* most objects the store holds (the input and the objects created from it)
MaxObjects == 3

(* ------------------------- JavaScript values -------------------------- *)

Undefined == [t |-> "undefined"]
Null == [t |-> "null"]
Bool(b) == [t |-> "boolean", b |-> b]
Num(n) == [t |-> "number", n |-> n]
Str(s) == [t |-> "string", s |-> s]
Obj(p) == [t |-> "object", props |-> p]
Arr(xs) == [t |-> "array", items |-> xs]

\* the outcome of an evaluation that ends in a thrown TypeError
TypeError == [t |-> "throw"]

IsThrow(v) == v.t = "throw"

\* the typeof operator
typeof(v) ==
  CASE v.t = "undefined" -> "undefined"
    [] v.t = "null" -> "object"
    [] v.t = "object" -> "object"
    [] v.t = "array" -> "object"
    [] v.t = "boolean" -> "boolean"
    [] v.t = "number" -> "number"
    [] v.t = "string" -> "string"

\* ToBoolean: what !v and v && ... test
Truthy(v) ==
  CASE v.t = "undefined" -> FALSE
    [] v.t = "null" -> FALSE
    [] v.t = "boolean" -> v.b
    [] v.t = "number" -> v.n # 0
    [] v.t = "string" -> v.s # ""
    [] OTHER -> TRUE

IsArray(v) == v.t = "array"

\* the property read v.k for a named (non-index) key k
Get(v, k) ==
  CASE v.t \in {"undefined", "null"} -> TypeError
    [] v.t = "object" -> IF k \in DOMAIN v.props THEN v.props[k] ELSE Undefined
    [] OTHER -> Undefined

\* variant: the earlier spread wins (operands in the wrong order)
ObjectSpread_targetWins(target, source) ==
  [k \in (DOMAIN target) \cup (DOMAIN source) |->
     IF k \in DOMAIN target THEN target[k] ELSE source[k]]

\* the object {...target, ...source}: own properties of source override
ObjectSpread(target, source) ==
  [k \in (DOMAIN target) \cup (DOMAIN source) |->
     IF k \in DOMAIN source THEN source[k] ELSE target[k]]

(* ------------------------------ the code ------------------------------ *)

ApiErrorCode ==
  {"BAD_REQUEST", "UNAUTHORIZED", "FORBIDDEN", "NOT_FOUND", "CONFLICT",
   "RATE_LIMITED", "VALIDATION_ERROR", "INTERNAL_ERROR",
   "SERVICE_UNAVAILABLE", "TIMEOUT"}

OptionalKeys == {"details", "fieldErrors", "correlationId"}

\* the callback given to every:  f && typeof f === 'object' &&
\*   typeof f.field === 'string' && typeof f.message === 'string'
FieldErrorCallback(f) ==
  IF ~Truthy(f) THEN Bool(FALSE)
  ELSE IF typeof(f) # "object" THEN Bool(FALSE)
  ELSE IF IsThrow(Get(f, "field")) THEN TypeError
  ELSE IF typeof(Get(f, "field")) # "string" THEN Bool(FALSE)
  ELSE IF IsThrow(Get(f, "message")) THEN TypeError
  ELSE Bool(typeof(Get(f, "message")) = "string")

\* variant: some in place of every
RECURSIVE SomeFrom(_, _)
SomeFrom(items, n) ==
  IF n > Len(items) THEN Bool(FALSE)
  ELSE LET r == FieldErrorCallback(items[n])
       IN IF IsThrow(r) THEN r
          ELSE IF Truthy(r) THEN Bool(TRUE)
          ELSE SomeFrom(items, n + 1)

\* Array.prototype.every from index n on: stops at the first element whose
\* callback is falsy or throws
RECURSIVE EveryFrom(_, _)
EveryFrom(items, n) ==
  IF n > Len(items) THEN Bool(TRUE)
  ELSE LET r == FieldErrorCallback(items[n])
       IN IF IsThrow(r) THEN r
          ELSE IF ~Truthy(r) THEN Bool(FALSE)
          ELSE EveryFrom(items, n + 1)

\* variant: the loose test fieldErrors == undefined, which null passes too
FieldErrorsOk_looseNull(fe) ==
  IF fe \in {Undefined, Null} THEN Bool(TRUE)
  ELSE IF ~IsArray(fe) THEN Bool(FALSE)
  ELSE EveryFrom(fe.items, 1)

\* i.fieldErrors === undefined || (Array.isArray(..) && ..every(..))
FieldErrorsOk(fe) ==
  IF fe = Undefined THEN Bool(TRUE)
  ELSE IF ~IsArray(fe) THEN Bool(FALSE)
  ELSE EveryFrom(fe.items, 1)

\* variant: code checked against the closed set of codes
CodeOk_enum(c) == typeof(c) = "string" /\ c.s \in ApiErrorCode

\* typeof i.code === 'string'
CodeOk(c) == typeof(c) = "string"

\* typeof i.message === 'string'
MessageOk(m) == typeof(m) = "string"

\* i.details === undefined || typeof i.details === 'object'
DetailsOk(d) == d = Undefined \/ typeof(d) = "object"

\* variant: the correlationId conjunct left out
CorrelationIdOk_unchecked(c) == TRUE

\* i.correlationId === undefined || typeof i.correlationId === 'string'
CorrelationIdOk(c) == c = Undefined \/ typeof(c) = "string"

\* the returned conjunction, evaluated left to right with short circuit
ShapeCheck(i) ==
  IF IsThrow(Get(i, "code")) THEN TypeError
  ELSE IF ~CodeOk(Get(i, "code")) THEN Bool(FALSE)
  ELSE IF ~MessageOk(Get(i, "message")) THEN Bool(FALSE)
  ELSE IF ~DetailsOk(Get(i, "details")) THEN Bool(FALSE)
  ELSE IF FieldErrorsOk(Get(i, "fieldErrors")) # Bool(TRUE)
       THEN FieldErrorsOk(Get(i, "fieldErrors"))
  ELSE Bool(CorrelationIdOk(Get(i, "correlationId")))

\* variant: the !input test left out, so null gets past typeof
isApiError_noNullGuard(input) ==
  IF typeof(input) # "object" THEN Bool(FALSE)
  ELSE ShapeCheck(input)

isApiError(input) ==
  IF ~Truthy(input) \/ typeof(input) # "object" THEN Bool(FALSE)
  ELSE ShapeCheck(input)

\* variant: the defaults written after the spread of partial
createApiErrorValue_defaultsLast(partial) ==
  Obj(ObjectSpread(partial.props, [k \in OptionalKeys |-> Undefined]))

\* variant: null as the sentinel of an optional field that was not given
createApiErrorValue_nullSentinel(partial) ==
  Obj(ObjectSpread([k \in OptionalKeys |-> Null], partial.props))

\* variant: each optional field written as partial.k ?? undefined, which
\* turns a supplied null into undefined
createApiErrorValue_nullish(partial) ==
  Obj(ObjectSpread(partial.props,
        [k \in OptionalKeys |->
           IF Get(partial, k) = Null THEN Undefined ELSE Get(partial, k)]))

\* the object literal createApiError returns
createApiErrorValue(partial) ==
  Obj(ObjectSpread([k \in OptionalKeys |-> Undefined], partial.props))

\* variant: the defaults assigned into partial itself, which is returned
createApiError_inPlace(st, a) ==
  [store |-> [st EXCEPT ![a] = createApiErrorValue(st[a])], ret |-> a]

\* createApiError on the object at address a: the literal is a new object
createApiError(st, a) ==
  [store |-> Append(st, createApiErrorValue(st[a])), ret |-> Len(st) + 1]

(* ------------------------------ inputs -------------------------------- *)

Absent == [t |-> "absent"]

\* the object with the given candidate value per key, Absent keys left out
MkObj(cands) ==
  Obj([k \in {x \in DOMAIN cands : cands[x] # Absent} |-> cands[k]])

GoodFieldError == Obj([field |-> Str("email"), message |-> Str("invalid")])

FieldErrorWithCode ==
  Obj([field |-> Str("name"), message |-> Str("required"), code |-> Str("c")])

Elems ==
  {Null, Undefined, Str("s"), GoodFieldError,
   Obj([field |-> Num(0), message |-> Str("m")]),
   Obj([field |-> Str("f")])}

SeqsUpTo(S, n) == UNION {[1..m -> S] : m \in 0..n}

CodeVals == {Absent, Num(0), Str(""), Str("NOT_FOUND"), Str("WEIRD")}
MessageVals == {Absent, Undefined, Num(1), Str("x")}
DetailsVals == {Absent, Undefined, Null, Obj(<<>>), Arr(<<>>), Str("d")}
FieldErrorsVals ==
  {Absent, Undefined, Null, Obj(<<>>), Str("fe")}
    \cup {Arr(xs) : xs \in SeqsUpTo(Elems, 1)}
CorrelationIdVals == {Absent, Undefined, Null, Str("cid")}
ExtraVals == {Absent, Num(1)}

UntypedObjects ==
  {MkObj([code |-> c, message |-> m, details |-> d, fieldErrors |-> fe,
          correlationId |-> cid, status |-> x]) :
     c \in CodeVals, m \in MessageVals, d \in DetailsVals,
     fe \in FieldErrorsVals, cid \in CorrelationIdVals, x \in ExtraVals}

\* the longer fieldErrors arrays, each with valid and invalid other fields
LongArrayObjects ==
  {MkObj([code |-> c, message |-> Str("x"), details |-> d,
          fieldErrors |-> Arr(xs), correlationId |-> cid]) :
     c \in {Str("NOT_FOUND"), Num(0)}, d \in {Absent, Str("d")},
     cid \in {Absent, Null},
     xs \in SeqsUpTo(Elems, MaxLen) \ SeqsUpTo(Elems, 1)}

NonObjects ==
  {Undefined, Null, Bool(FALSE), Bool(TRUE), Num(0), Num(1), Str(""),
   Str("x"), Arr(<<>>), Arr(<<Str("x")>>)}

\* arguments of the declared parameter type, over all ten codes
TypedPartials ==
  {MkObj([code |-> Str(c), message |-> m, details |-> d, fieldErrors |-> fe,
          correlationId |-> cid]) :
     c \in ApiErrorCode, m \in {Str(""), Str("x")},
     d \in {Absent, Obj(<<>>), Obj([reason |-> Num(1)])},
     fe \in {Absent} \cup
            {Arr(xs) : xs \in SeqsUpTo({GoodFieldError, FieldErrorWithCode}, MaxLen)},
     cid \in {Absent, Str("cid")}}

Inputs ==
  UntypedObjects \cup LongArrayObjects \cup TypedPartials \cup NonObjects

(* --------------------------- state machine ---------------------------- *)

NoVerdict == [t |-> "none"]

Init ==
  /\ store \in {<<v>> : v \in Inputs}
  /\ arg = 1
  /\ op = "none"
  /\ ret = 0
  /\ verdict = NoVerdict
  /\ madeFrom = <<0>>

\* a caller evaluates isApiError(store[arg])
CallIsApiError ==
  /\ op' = "isApiError"
  /\ verdict' = isApiError(store[arg])
  /\ ret' = 0
  /\ UNCHANGED <<store, arg, madeFrom>>

\* a caller evaluates createApiError(store[arg]); the parameter type admits
\* objects only
CallCreateApiError ==
  /\ store[arg].t = "object"
  /\ Len(store) < MaxObjects
  /\ LET r == createApiError(store, arg)
     IN /\ store' = r.store
        /\ ret' = r.ret
        /\ madeFrom' = [a \in 1..Len(r.store) |->
                          IF a \in DOMAIN madeFrom THEN madeFrom[a] ELSE arg]
  /\ op' = "createApiError"
  /\ verdict' = NoVerdict
  /\ UNCHANGED arg

\* the caller goes on with the value createApiError returned
UseResult ==
  /\ op = "createApiError"
  /\ arg' = ret
  /\ op' = "none"
  /\ ret' = 0
  /\ verdict' = NoVerdict
  /\ UNCHANGED <<store, madeFrom>>

Next == CallIsApiError \/ CallCreateApiError \/ UseResult

Spec == Init /\ [][Next]_vars

(* ------------------- vocabulary of the stated properties -------------- *)

Has(v, k) == v.t = "object" /\ k \in DOMAIN v.props

\* a field counts as present when it holds anything but undefined
Present(v, k) == Has(v, k) /\ v.props[k] # Undefined

HasString(v, k) == Has(v, k) /\ v.props[k].t = "string"

\* an object-typed value: a plain object, an array or null
ObjectTyped(d) == d.t \in {"object", "array", "null"}

EntryHasStrings(e) == HasString(e, "field") /\ HasString(e, "message")

OptionalFieldsConform(v, keys) ==
  /\ ("details" \in keys /\ Present(v, "details"))
       => ObjectTyped(v.props["details"])
  /\ ("fieldErrors" \in keys /\ Present(v, "fieldErrors"))
       => /\ v.props["fieldErrors"].t = "array"
          /\ \A n \in 1..Len(v.props["fieldErrors"].items) :
               EntryHasStrings(v.props["fieldErrors"].items[n])
  /\ ("correlationId" \in keys /\ Present(v, "correlationId"))
       => v.props["correlationId"].t = "string"

ApiErrorShape(v) ==
  /\ HasString(v, "code")
  /\ HasString(v, "message")
  /\ OptionalFieldsConform(v, OptionalKeys)

Called(name) == op = name

\* the value createApiError was given when it made the object at arg
Origin == store[madeFrom[arg]]

FromCreate == madeFrom[arg] # 0

(* ------------------------------- C1 ----------------------------------- *)

\* C1: isApiError returns true exactly for the inputs of the ApiError shape
\* (string code, string message, each present optional field well formed);
\* in particular an object with just a string code and a string message is
\* accepted.
C1_TrueIffShape ==
  Called("isApiError") =>
    /\ (verdict = Bool(TRUE)) <=> ApiErrorShape(store[arg])
    /\ (/\ HasString(store[arg], "code")
        /\ HasString(store[arg], "message")
        /\ DOMAIN store[arg].props = {"code", "message"})
         => verdict = Bool(TRUE)

C1_Witness ==
  /\ Called("isApiError")
  /\ store[arg].t = "object"
  /\ DOMAIN store[arg].props = {"code", "message"}
  /\ verdict = Bool(TRUE)

(* ------------------------------- C2 ----------------------------------- *)

NotAnObject(v) == v.t \in {"undefined", "boolean", "number", "string"}

\* C2: on null, on a non-object and on an object without a string code or
\* without a string message, isApiError returns false as a normal result
\* and does not throw.
C2_FalseNeverThrows ==
  (/\ Called("isApiError")
   /\ \/ store[arg] = Null
      \/ NotAnObject(store[arg])
      \/ ~HasString(store[arg], "code")
      \/ ~HasString(store[arg], "message"))
    => verdict = Bool(FALSE)

C2_Witness ==
  /\ Called("isApiError")
  /\ store[arg] = Null
  /\ verdict = Bool(FALSE)

(* ------------------------------- C3 ----------------------------------- *)

HasBadEntry(v) ==
  /\ Has(v, "fieldErrors")
  /\ v.props["fieldErrors"].t = "array"
  /\ \E n \in 1..Len(v.props["fieldErrors"].items) :
       ~EntryHasStrings(v.props["fieldErrors"].items[n])

\* C3: a fieldErrors array with an entry that lacks a string field or a
\* string message makes isApiError return false, wherever the entry stands
\* and whatever the other fields hold.
C3_BadEntryRejected ==
  (Called("isApiError") /\ HasBadEntry(store[arg])) => verdict = Bool(FALSE)

C3_Witness ==
  /\ Called("isApiError")
  /\ store[arg].t = "object"
  /\ DOMAIN store[arg].props = {"code", "message", "fieldErrors"}
  /\ HasString(store[arg], "code")
  /\ HasString(store[arg], "message")
  /\ store[arg].props["fieldErrors"] = Arr(<<GoodFieldError, Null>>)
  /\ verdict = Bool(FALSE)

(* ------------------------------- C4 ----------------------------------- *)

\* C4: the object createApiError returns holds every key of the partial
\* with the partial's value (code and message among them), holds undefined
\* for each of details, fieldErrors, correlationId the partial lacks, and
\* holds nothing else.
C4_DefaultsThenOverlay ==
  Called("createApiError") =>
    /\ store[ret].t = "object"
    /\ DOMAIN store[ret].props = DOMAIN store[arg].props \cup OptionalKeys
    /\ Get(store[ret], "code") = Get(store[arg], "code")
    /\ Get(store[ret], "message") = Get(store[arg], "message")
    /\ \A k \in DOMAIN store[arg].props :
         store[ret].props[k] = store[arg].props[k]
    /\ \A k \in OptionalKeys \ DOMAIN store[arg].props :
         store[ret].props[k] = Undefined

C4_Witness ==
  /\ Called("createApiError")
  /\ Has(store[arg], "details") /\ store[arg].props["details"] = Null
  /\ ~Has(store[arg], "fieldErrors")
  /\ Has(store[arg], "status")
  /\ store[ret].props["details"] = Null
  /\ store[ret].props["fieldErrors"] = Undefined
  /\ store[ret].props["status"] = Num(1)

(* ------------------------------- C5 ----------------------------------- *)

OnlyCodeAndMessage(v) ==
  /\ v.t = "object"
  /\ DOMAIN v.props = {"code", "message"}
  /\ HasString(v, "code") /\ v.props["code"].s \in ApiErrorCode
  /\ HasString(v, "message")

\* C5: from {code, message} with code one of the ten codes, createApiError
\* yields details, fieldErrors and correlationId all undefined, and
\* isApiError returns true on what it yields.
C5_MinimalRoundTrip ==
  /\ (Called("createApiError") /\ OnlyCodeAndMessage(store[arg]))
       => \A k \in OptionalKeys : Has(store[ret], k) /\ store[ret].props[k] = Undefined
  /\ (Called("isApiError") /\ FromCreate /\ OnlyCodeAndMessage(Origin))
       => verdict = Bool(TRUE)

C5_Witness ==
  /\ Called("isApiError")
  /\ FromCreate
  /\ OnlyCodeAndMessage(Origin)
  /\ Origin.props["code"] = Str("TIMEOUT")
  /\ \A k \in OptionalKeys : store[arg].props[k] = Undefined
  /\ verdict = Bool(TRUE)

(* ------------------------------- C6 ----------------------------------- *)

WellTyped(v) ==
  /\ HasString(v, "code") /\ v.props["code"].s \in ApiErrorCode
  /\ HasString(v, "message")
  /\ Has(v, "details") => v.props["details"].t = "object"
  /\ Has(v, "fieldErrors")
       => /\ v.props["fieldErrors"].t = "array"
          /\ \A n \in 1..Len(v.props["fieldErrors"].items) :
               EntryHasStrings(v.props["fieldErrors"].items[n])
  /\ Has(v, "correlationId") => v.props["correlationId"].t = "string"

\* C6: on a well-typed argument the value createApiError produces carries
\* the supplied fieldErrors list unchanged, and isApiError returns true on
\* that value.
C6_TypedRoundTrip ==
  /\ (Called("createApiError") /\ WellTyped(store[arg]) /\ Has(store[arg], "fieldErrors"))
       => /\ Has(store[ret], "fieldErrors")
          /\ store[ret].props["fieldErrors"] = store[arg].props["fieldErrors"]
  /\ (Called("isApiError") /\ FromCreate /\ WellTyped(Origin))
       => verdict = Bool(TRUE)

C6_Witness ==
  /\ Called("isApiError")
  /\ FromCreate
  /\ WellTyped(Origin)
  /\ Origin.props["code"] = Str("VALIDATION_ERROR")
  /\ Has(Origin, "fieldErrors")
  /\ Origin.props["fieldErrors"] = Arr(<<GoodFieldError>>)
  /\ store[arg].props["fieldErrors"] = Arr(<<GoodFieldError>>)
  /\ verdict = Bool(TRUE)

(* ------------------------------- C7 ----------------------------------- *)

\* C7: a string code outside the ten codes does not make isApiError reject:
\* an input of the ApiError shape whose code is such a string is accepted.
C7_CodeOnlyAString ==
  (/\ Called("isApiError")
   /\ ApiErrorShape(store[arg])
   /\ store[arg].props["code"].s \notin ApiErrorCode)
    => verdict = Bool(TRUE)

C7_Witness ==
  /\ Called("isApiError")
  /\ Has(store[arg], "code")
  /\ store[arg].props["code"] \in {Str("WEIRD"), Str("")}
  /\ verdict = Bool(TRUE)

(* ------------------------------- C8 ----------------------------------- *)

\* C8: no call changes an object that exists when it is made,
\* createApiError returns an object that did not exist before, a repeated
\* isApiError on the same argument repeats its verdict, and two objects
\* createApiError made from the same argument are equal.
C8_NoSideEffects ==
  [][/\ \A a \in 1..Len(store) : a \in 1..Len(store') /\ store'[a] = store[a]
     /\ op' = "createApiError" => ret' \notin 1..Len(store)
     /\ (op = "isApiError" /\ op' = "isApiError") => verdict' = verdict
     /\ \A a, b \in 1..Len(store') :
          (madeFrom'[a] # 0 /\ madeFrom'[a] = madeFrom'[b])
            => store'[a] = store'[b]]_vars

C8_Witness ==
  /\ Called("createApiError")
  /\ Len(store) = 3
  /\ madeFrom[2] = 1 /\ madeFrom[3] = 1
  /\ store[2] = store[3]
  /\ store[2] # store[1]

(* ------------------------------- C9 ----------------------------------- *)

\* C9: isApiError gives the same outcome on the object createApiError
\* returns as on the object it was given, and createApiError applied to an
\* object it returned returns an equal object.
C9_VerdictPreserved ==
  Called("createApiError") =>
    /\ isApiError(store[ret]) = isApiError(store[arg])
    /\ FromCreate => store[ret] = store[arg]

C9_Witness ==
  /\ Called("createApiError")
  /\ FromCreate
  /\ Has(Origin, "fieldErrors") /\ Origin.props["fieldErrors"] = Null
  /\ HasString(Origin, "code") /\ HasString(Origin, "message")
  /\ isApiError(store[ret]) = Bool(FALSE)
  /\ store[ret] = store[arg]

(* ------------------------------- C10 ---------------------------------- *)

\* C10: with a string code and a string message, details = null and
\* details = an array are accepted, fieldErrors = null and
\* correlationId = null are rejected, and an accepted input holds, for
\* fieldErrors and correlationId, nothing, undefined, or a value of the
\* field's type.
C10_NullPerField ==
  (/\ Called("isApiError")
   /\ HasString(store[arg], "code")
   /\ HasString(store[arg], "message"))
    => /\ (/\ Has(store[arg], "details")
           /\ store[arg].props["details"].t \in {"null", "array"}
           /\ OptionalFieldsConform(store[arg], {"fieldErrors", "correlationId"}))
            => verdict = Bool(TRUE)
       /\ (Has(store[arg], "fieldErrors") /\ store[arg].props["fieldErrors"] = Null)
            => verdict = Bool(FALSE)
       /\ (Has(store[arg], "correlationId") /\ store[arg].props["correlationId"] = Null)
            => verdict = Bool(FALSE)
       /\ verdict = Bool(TRUE)
            => /\ Has(store[arg], "fieldErrors")
                    => store[arg].props["fieldErrors"].t \in {"undefined", "array"}
               /\ Has(store[arg], "correlationId")
                    => store[arg].props["correlationId"].t \in {"undefined", "string"}

C10_Witness ==
  /\ Called("isApiError")
  /\ Has(store[arg], "details") /\ store[arg].props["details"] = Null
  /\ Has(store[arg], "fieldErrors") /\ store[arg].props["fieldErrors"] = Undefined
  /\ ~Has(store[arg], "correlationId")
  /\ verdict = Bool(TRUE)

====
